---- MODULE Spec2Model ----
(***************************************************************************)
(* Model of the retry engine of bjaus/retry: the execution loop `execute`  *)
(* (doc.go), the options that build its config (option.go), the backoff    *)
(* strategies, the Clock implementations and the terminal marker Stop.     *)
(*                                                                         *)
(* Durations and instants are integers in an abstract time unit.  An error *)
(* value is the chain of its wrappers followed by its base error, e.g.     *)
(* <<"stop", "E1">> is retry.Stop(E1); the nil error is the empty chain.   *)
(***************************************************************************)
EXTENDS Integers, Sequences, FiniteSets, TLC

\* ------------------------------------------------------------------ bounds
\* largest max_attempts a configuration asks for
MaxAttemptsCfg == 3
\* longest running time of one call of the operation
MaxOpTime == 2
\* largest amount the real clock moves between two consecutive reads
MaxDrift == 1
MaxElapsed == 2
\* factors are whole numbers of 2^-FactorShift, values of rand.Float64()
\* whole numbers of 2^-DrawShift
FactorShift == 2
DrawShift == 3

\* ------------------------------------------------------- program constants
DefaultMaxAttempts == 3

\* ------------------------------------------------------------------ errors
Nil == <<>>
E1 == <<"E1">>
E2 == <<"E2">>
\* the error a cancelled context reports (ctx.Err())
CtxErr == <<"context canceled">>

\* the marker put around every error, nil included
StopWrapsNil(err) == <<"stop">> \o err

\* retry.Stop
Stop(err) == IF err = Nil THEN Nil ELSE <<"stop">> \o err

\* fmt.Errorf("...: %w", err): an ordinary wrapper around err
Wrap(err) == IF err = Nil THEN Nil ELSE <<"wrap">> \o err

\* errors.As(err, &stopped): some layer of the chain is a *stopError
HasStop(err) == \E i \in 1..Len(err) : err[i] = "stop"

\* index of the outermost *stopError of the chain (the one errors.As finds)
FirstStop(err) == CHOOSE i \in 1..Len(err) : err[i] = "stop" /\ \A j \in 1..(i-1) : err[j] # "stop"

\* returns the error as the operation built it, marker included
StopUnwrapKeepsMarker(err) == err

\* stopped.Unwrap() of the *stopError that errors.As found
StopUnwrap(err) == SubSeq(err, FirstStop(err) + 1, Len(err))

\* the base error at the end of the chain
Base(err) == err[Len(err)]

\* ------------------------------------------------------- values Do returns
\* a returned error is either nil, one error of the operation, or errors.Join
ErrNil == [join |-> FALSE, errs |-> <<>>]
Ret(e) == IF e = Nil THEN ErrNil ELSE [join |-> FALSE, errs |-> <<e>>]

\* joinErrors: one error is returned as it is, several through errors.Join
joinErrors(es) == IF Len(es) = 1 THEN Ret(es[1]) ELSE IF Len(es) = 0 THEN ErrNil ELSE [join |-> TRUE, errs |-> es]

\* ---------------------------------------------------------------- backoff
Constant(d) == [kind |-> "Constant", d |-> d]
Linear(base) == [kind |-> "Linear", d |-> base]
Exponential(base) == [kind |-> "Exponential", d |-> base]

\* Backoff.Delay
Delay(b, n) ==
  IF b.kind = "Constant" THEN b.d
  ELSE IF b.kind = "Linear" THEN b.d * n
  ELSE IF n <= 0 THEN b.d
  ELSE IF n > 62 THEN 2^63 - 1
  ELSE b.d * 2^(n - 1)

\* ------------------------------------------------------- 64-bit durations
\* time.Duration is an int64. A value is kept as its bytes in two's
\* complement, the least significant byte first, and the arithmetic below
\* is Go's: it wraps around.
Int64Bytes == 8
LimbBase == 2^8
\* twice the width, for the products and sums as numbers: nothing the
\* strategies compute from 64-bit values reaches it
WideBytes == 2 * Int64Bytes

FromNat(w, k) == SubSeq([j \in 1..w |-> IF j <= 3 THEN (k \div LimbBase^(j - 1)) % LimbBase ELSE IF j = 4 THEN k \div LimbBase^3 ELSE 0], 1, w)
ZeroOf(w) == SubSeq([j \in 1..w |-> 0], 1, w)

RECURSIVE AddFrom(_, _, _, _)
AddFrom(a, b, j, c) ==
  IF j > Len(a) THEN <<>>
  ELSE <<(a[j] + b[j] + c) % LimbBase>> \o AddFrom(a, b, j + 1, (a[j] + b[j] + c) \div LimbBase)

\* a + b, wrapping at the width of a
Add(a, b) == AddFrom(a, b, 1, 0)

\* -a: the complement plus one
Neg(a) == AddFrom(SubSeq([j \in 1..Len(a) |-> LimbBase - 1 - a[j]], 1, Len(a)), ZeroOf(Len(a)), 1, 1)

IsNeg(a) == a[Len(a)] >= LimbBase \div 2

FromInt(w, k) == IF k < 0 THEN Neg(FromNat(w, 0 - k)) ELSE FromNat(w, k)

\* a 64-bit duration of k nanoseconds
Dur(k) == FromInt(Int64Bytes, k)

MaxInt64 == SubSeq([j \in 1..Int64Bytes |-> IF j = Int64Bytes THEN LimbBase \div 2 - 1 ELSE LimbBase - 1], 1, Int64Bytes)
MinInt64 == SubSeq([j \in 1..Int64Bytes |-> IF j = Int64Bytes THEN LimbBase \div 2 ELSE 0], 1, Int64Bytes)

\* a times the one byte x, moved up by p bytes, wrapping at the width of a
RECURSIVE MulLimbFrom(_, _, _, _, _)
MulLimbFrom(a, x, p, j, c) ==
  IF j > Len(a) THEN <<>>
  ELSE IF j <= p THEN <<0>> \o MulLimbFrom(a, x, p, j + 1, 0)
  ELSE <<(a[j - p] * x + c) % LimbBase>> \o MulLimbFrom(a, x, p, j + 1, (a[j - p] * x + c) \div LimbBase)

RECURSIVE MulFrom(_, _, _)
MulFrom(a, b, p) ==
  IF p >= Len(a) THEN ZeroOf(Len(a))
  ELSE IF b[p + 1] = 0 THEN MulFrom(a, b, p + 1)
  ELSE Add(MulLimbFrom(a, b[p + 1], p, 1, 0), MulFrom(a, b, p + 1))

\* a * b, wrapping at the width of a (the same for signed and unsigned)
Mul(a, b) == MulFrom(a, b, 0)

\* bit i of a, 0 outside it
BitAt(a, i) == IF i < 0 \/ i >= 8 * Len(a) THEN 0 ELSE (a[(i \div 8) + 1] \div 2^(i % 8)) % 2

ByteFrom(a, i) == BitAt(a, i) + 2 * BitAt(a, i + 1) + 4 * BitAt(a, i + 2) + 8 * BitAt(a, i + 3) + 16 * BitAt(a, i + 4) + 32 * BitAt(a, i + 5) + 64 * BitAt(a, i + 6) + 128 * BitAt(a, i + 7)

\* a << s and a >> s (unsigned) at the width of a
ShiftLeft(a, s) == SubSeq([j \in 1..Len(a) |-> ByteFrom(a, 8 * (j - 1) - s)], 1, Len(a))
ShiftRight(a, s) == SubSeq([j \in 1..Len(a) |-> ByteFrom(a, 8 * (j - 1) + s)], 1, Len(a))

RECURSIVE LtFrom(_, _, _)
LtFrom(a, b, j) == IF j = 0 THEN FALSE ELSE IF a[j] # b[j] THEN a[j] < b[j] ELSE LtFrom(a, b, j - 1)

\* a < b as unsigned and as signed numbers
LtU(a, b) == LtFrom(a, b, Len(a))
Lt(a, b) == IF IsNeg(a) # IsNeg(b) THEN IsNeg(a) ELSE LtU(a, b)
Le(a, b) == ~Lt(b, a)

\* the signed value of a at the width w >= Len(a)
Extend(a, w) == SubSeq([j \in 1..w |-> IF j <= Len(a) THEN a[j] ELSE IF IsNeg(a) THEN LimbBase - 1 ELSE 0], 1, w)

\* ------------------------------------------------ float64 in WithJitter
\* A float64 is kept as a sign and a magnitude, the magnitude a whole
\* number of units of a power of two that the context fixes; every result
\* is rounded to the 53 bits of the float64 mantissa, to nearest, ties to
\* even. Factors are whole numbers of 2^-FactorShift and the values of
\* rand.Float64() whole numbers of 2^-DrawShift, so that they are float64
\* values themselves.
MantissaBits == 53

\* the position of the highest bit set in m, -1 for zero
TopBit(m) ==
  LET set == {i \in 0..(8 * Len(m) - 1) : BitAt(m, i) = 1}
  IN IF set = {} THEN 0 - 1 ELSE CHOOSE i \in set : \A j \in set : j <= i

\* m rounded to MantissaBits significant bits
RoundMag(m) ==
  LET s == TopBit(m) - (MantissaBits - 1)
  IN IF s <= 0 THEN m
     ELSE LET kept == ShiftLeft(ShiftRight(m, s), s)
              up == BitAt(m, s - 1) = 1 /\ (BitAt(m, s) = 1 \/ \E i \in 0..(s - 2) : BitAt(m, i) = 1)
          IN IF up THEN Add(kept, ShiftLeft(FromNat(Len(m), 1), s)) ELSE kept

\* float64(d)
ToFloat64(d) == [neg |-> IsNeg(d), mag |-> RoundMag(IF IsNeg(d) THEN Neg(Extend(d, WideBytes)) ELSE Extend(d, WideBytes))]

\* x * k for a whole number k
FMulInt(x, k) == [neg |-> x.neg # (k < 0), mag |-> RoundMag(Mul(x.mag, FromNat(WideBytes, IF k < 0 THEN 0 - k ELSE k)))]

\* x + y, both in the same unit
FAdd(x, y) ==
  LET s == Add(IF x.neg THEN Neg(x.mag) ELSE x.mag, IF y.neg THEN Neg(y.mag) ELSE y.mag)
  IN [neg |-> IsNeg(s), mag |-> RoundMag(IF IsNeg(s) THEN Neg(s) ELSE s)]

\* x in a unit smaller by 2^sh
FScale(x, sh) == [neg |-> x.neg, mag |-> ShiftLeft(x.mag, sh)]

\* the builds: amd64 converts a float64 that no int64 holds to the smallest
\* int64, arm64 to the nearest one (the language leaves the result to the
\* implementation)
Archs == {"amd64", "arm64"}

\* time.Duration(x) for x in units of 2^-sh: the fraction is dropped
ToInt64(x, sh, arch) ==
  LET m == ShiftRight(x.mag, sh)
      fits == TopBit(m) < 8 * Int64Bytes - 1 \/ (x.neg /\ m = ShiftLeft(FromNat(WideBytes, 1), 8 * Int64Bytes - 1))
      low == SubSeq(m, 1, Int64Bytes)
  IN IF fits THEN (IF x.neg THEN Neg(low) ELSE low)
     ELSE IF arch = "amd64" \/ x.neg THEN MinInt64
     ELSE MaxInt64

\* ------------------------------------------- the strategies in 64 bits
\* Constant, Linear and Exponential above with a 64-bit duration for d, and
\* the wrappers; a factor is a whole number of 2^-FactorShift
WithCap(max, b) == [kind |-> "WithCap", max |-> max, inner |-> b]
WithMin(min, b) == [kind |-> "WithMin", min |-> min, inner |-> b]
WithJitter(factor, b) == [kind |-> "WithJitter", factor |-> factor, inner |-> b]

\* the comparison of the cap turned round
CappedBelow(d, max) == IF Lt(d, max) THEN max ELSE d

\* WithCap, lines 55-59: if d > max { return max }; return d
Capped(d, max) == IF Lt(max, d) THEN max ELSE d

\* WithMin, lines 66-70: if d < min { return min }; return d
Raised(d, min) == IF Lt(d, min) THEN min ELSE d

\* only the factor 0 taken as "no jitter"
JitterOffZeroOnly(factor) == factor = 0

\* WithJitter, line 79: if factor <= 0
JitterOff(factor) == factor <= 0

\* WithJitter, lines 79-90, with u the value of rand.Float64() as a whole
\* number of 2^-DrawShift
Jittered(d, factor, u, arch) ==
  IF JitterOff(factor) THEN d
  ELSE LET jitterRange == FMulInt(ToFloat64(d), factor)
           jitter == FMulInt(jitterRange, 2 * u - 2^DrawShift)
           sum == FAdd(FScale(ToFloat64(d), FactorShift + DrawShift), jitter)
           result == ToInt64(sum, FactorShift + DrawShift, arch)
       IN IF IsNeg(result) THEN Dur(0) ELSE result

\* Backoff.Delay(n) in 64-bit arithmetic. us: the values rand.Float64()
\* returns to the WithJitter layers, outermost first
RECURSIVE DelayInt64(_, _, _, _)
DelayInt64(b, n, us, arch) ==
  IF b.kind = "Constant" THEN b.d
  ELSE IF b.kind = "Linear" THEN Mul(b.d, Dur(n))
  ELSE IF b.kind = "Exponential"
  THEN IF n <= 0 THEN b.d
       ELSE IF n > 62 THEN MaxInt64
       ELSE Mul(b.d, ShiftLeft(Dur(1), n - 1))
  ELSE IF b.kind = "WithCap" THEN Capped(DelayInt64(b.inner, n, us, arch), b.max)
  ELSE IF b.kind = "WithMin" THEN Raised(DelayInt64(b.inner, n, us, arch), b.min)
  ELSE Jittered(DelayInt64(b.inner, n, Tail(us), arch), b.factor, Head(us), arch)

\* the number of WithJitter layers of a strategy
RECURSIVE JitterLayers(_)
JitterLayers(b) ==
  IF b.kind \in {"Constant", "Linear", "Exponential"} THEN 0
  ELSE JitterLayers(b.inner) + (IF b.kind = "WithJitter" THEN 1 ELSE 0)

\* ------------------------------------------------------------- conditions
\* "nil": If(nil); "default": defaultCondition; "notE2": IfNot(is E2)
Accepts(cond, err) == IF cond = "default" THEN err # Nil ELSE Base(err) # "E2"

\* ---------------------------------------------------------- configurations
Backoffs == {Constant(0 - 1), Constant(0), Constant(1), Linear(2)}
Budgets == {0, 3, 5}
Conditions == {"nil", "default", "notE2"}
Clocks == {"fake", "real"}
Configs == [maxAttempts : (0 - 1)..MaxAttemptsCfg, maxDuration : Budgets, backoff : Backoffs, clock : Clocks, condition : Conditions, onRetry : BOOLEAN, onSuccess : BOOLEAN, onExhausted : BOOLEAN, allErrors : BOOLEAN]

\* ----------------------------------------------------------------- options
\* an Option: its name and its argument (n: a number, b: a backoff, c: a
\* clock or a predicate)
Opt(name, n, b, c) == [opt |-> name, n |-> n, b |-> b, c |-> c]
WithMaxAttempts(n) == Opt("WithMaxAttempts", n, Constant(0), "")
WithMaxDuration(d) == Opt("WithMaxDuration", d, Constant(0), "")
WithBackoff(b) == Opt("WithBackoff", 0, b, "")
WithClock(c) == Opt("WithClock", 0, Constant(0), c)
If(cond) == Opt("If", 0, Constant(0), cond)
OnRetry == Opt("OnRetry", 0, Constant(0), "")
OnSuccess == Opt("OnSuccess", 0, Constant(0), "")
OnExhausted == Opt("OnExhausted", 0, Constant(0), "")
WithAllErrors == Opt("WithAllErrors", 0, Constant(0), "")

\* opt(cfg): what the option writes into the config
ApplyOption(c, o) ==
  IF o.opt = "WithMaxAttempts" THEN [c EXCEPT !.maxAttempts = o.n]
  ELSE IF o.opt = "WithMaxDuration" THEN [c EXCEPT !.maxDuration = o.n]
  ELSE IF o.opt = "WithBackoff" THEN [c EXCEPT !.backoff = o.b]
  ELSE IF o.opt = "WithClock" THEN [c EXCEPT !.clock = o.c]
  ELSE IF o.opt = "If" THEN [c EXCEPT !.condition = o.c]
  ELSE IF o.opt = "OnRetry" THEN [c EXCEPT !.onRetry = TRUE]
  ELSE IF o.opt = "OnSuccess" THEN [c EXCEPT !.onSuccess = TRUE]
  ELSE IF o.opt = "OnExhausted" THEN [c EXCEPT !.onExhausted = TRUE]
  ELSE [c EXCEPT !.allErrors = TRUE]

\* for _, opt := range opts { opt(cfg) }
RECURSIVE ApplyOptions(_, _)
ApplyOptions(c, opts) == IF opts = <<>> THEN c ELSE ApplyOptions(ApplyOption(c, Head(opts)), Tail(opts))

\* the zero value of config
ZeroConfig == [maxAttempts |-> 0, maxDuration |-> 0, backoff |-> Constant(0), clock |-> "real", condition |-> "nil", onRetry |-> FALSE, onSuccess |-> FALSE, onExhausted |-> FALSE, allErrors |-> FALSE]

\* the Policy fields of a config (New, lines 261-266)
PolicyOf(c) == [maxAttempts |-> c.maxAttempts, maxDuration |-> c.maxDuration, backoff |-> c.backoff, clock |-> c.clock]

\* New: the defaults (3 attempts, exponential backoff from 100ms, here one
\* time unit, the real clock), then the options
New(opts) == PolicyOf(ApplyOptions([ZeroConfig EXCEPT !.maxAttempts = DefaultMaxAttempts, !.backoff = Exponential(1), !.clock = "real"], opts))

\* Policy.Do, lines 298-307: the policy's fields and the default predicate,
\* then the options of the call
PolicyDoConfig(p, opts) == ApplyOptions([ZeroConfig EXCEPT !.maxAttempts = p.maxAttempts, !.maxDuration = p.maxDuration, !.backoff = p.backoff, !.clock = p.clock, !.condition = "default"], opts)

\* the options of the call written through to the Policy
PolicyAfterDoWritesBack(p, opts) == PolicyOf(PolicyDoConfig(p, opts))

\* Policy.Do works on a copy of the fields: the Policy stays as it is
PolicyAfterDo(p, opts) == p

\* the options a Policy is built from, and those passed to a call
PolicyOptionLists == {<<>>, <<WithMaxAttempts(2)>>, <<WithMaxAttempts(0), WithBackoff(Constant(1)), WithClock("fake")>>, <<WithMaxAttempts(2), WithMaxDuration(3), WithBackoff(Linear(2)), WithClock("fake")>>}
CallOptionLists == {<<>>, <<WithMaxAttempts(1)>>, <<WithMaxAttempts(3), WithAllErrors, OnRetry, OnSuccess, OnExhausted>>, <<WithMaxDuration(5), WithBackoff(Constant(1)), WithClock("fake"), If("notE2")>>}

\* what one call of the operation returns, and how long it runs
OpErrors == {Nil, Stop(Nil), E1, E2, Stop(E1), Stop(Stop(E1)), Wrap(Stop(E2))}
OpTimes == {0, MaxOpTime}

\* ------------------------------------------------------------------- state
\* cfg: the merged config of this call; pc: position in execute;
\* state: the state of the loop's state machine; attempt, maxAttempts,
\* deadline, err, lastErr, errs, delay: the locals of execute; now: the
\* clock's time; cancelled: ctx is done; result: the value Do returned;
\* trace: the calls execute has made (operation, predicate, backoff, hooks,
\* clock sleep), in order.
VARIABLES cfg, pc, state, attempt, maxAttempts, deadline, err, lastErr, errs, delay, now, cancelled, result, trace

\* policy: the Policy the call is made on; callOpts: the options passed to
\* the call; self: which invocation is running; parked: the invocation that
\* is not running now (its options and the locals of its execute)
VARIABLES policy, callOpts, self, parked

\* one call of realClock.Sleep(ctx, sleepD). timer: the timer NewTimer made
\* ("none" before, then "armed", "fired" or "stopped"); timerC: the values
\* waiting in timer.C; ctxDone: ctx.Done() is closed; spc: where Sleep is;
\* sleepRet: what it returned; order: the timer's expiry and the
\* cancellation in the order they happened; elapsed: the time since the
\* call; asynctimerchan: the runtime's timer channels are the buffered ones
\* of Go before 1.23
VARIABLES sleepD, timer, timerC, ctxDone, spc, sleepRet, order, elapsed, asynctimerchan

sleepVars == <<sleepD, timer, timerC, ctxDone, spc, sleepRet, order, elapsed, asynctimerchan>>

\* one call of Backoff.Delay(attemptArg) on strategy. draw: the value
\* rand.Float64() returns to each WithJitter of the strategy, outermost
\* first; convs: what the platform makes of each float64 to int64
\* conversion that is out of range; out: the delay returned; bpc: where
\* the call is
VARIABLES strategy, attemptArg, draw, convs, out, bpc

backoffVars == <<strategy, attemptArg, draw, convs, out, bpc>>

shared == <<policy, callOpts, self, parked, sleepVars, backoffVars>>

vars == <<cfg, pc, state, attempt, maxAttempts, deadline, err, lastErr, errs, delay, now, cancelled, result, trace, policy, callOpts, self, parked, sleepVars, backoffVars>>

\* no call of realClock.Sleep is under way
NoSleepCall ==
  /\ sleepD = 0
  /\ timer = "none"
  /\ timerC = 0
  /\ ctxDone = FALSE
  /\ spc = "idle"
  /\ sleepRet = "none"
  /\ order = <<>>
  /\ elapsed = 0
  /\ asynctimerchan = FALSE

\* no call of Backoff.Delay is under way
NoBackoffCall ==
  /\ strategy = "none"
  /\ attemptArg = 0
  /\ draw = <<>>
  /\ convs = <<>>
  /\ out = "none"
  /\ bpc = "idle"

\* one call made by execute: what was called, the attempt number, the error
\* passed or returned, and a duration (the delay passed to the hook or to
\* Sleep, the delay the backoff returned, the running time of the operation)
Event(ev, a, e, d) == [ev |-> ev, attempt |-> a, err |-> e, d |-> d]

\* no other invocation
NoCall == [pc |-> "none"]

\* execute is entered with a merged config
Init ==
  /\ cfg \in Configs
  /\ pc = "start"
  /\ state = "Running"
  /\ attempt = 0
  /\ maxAttempts = 0
  /\ deadline = 0
  /\ err = Nil
  /\ lastErr = Nil
  /\ errs = <<>>
  /\ delay = 0
  /\ now = 0
  /\ cancelled = FALSE
  /\ result = ErrNil
  /\ trace = <<>>
  /\ policy = PolicyOf(cfg)
  /\ callOpts = <<>>
  /\ self = 1
  /\ parked = NoCall
  /\ NoSleepCall
  /\ NoBackoffCall

\* ------------------------------------------------- the pieces of execute
\* a non-positive maximum taken as it is
EffectiveMaxNoFloor(n) == n

\* maxAttempts <= 0 falls back to the default
EffectiveMax(n) == IF n <= 0 THEN DefaultMaxAttempts ELSE n

\* deadline = cfg.clock.Now().Add(cfg.maxDuration)
DeadlineAt(t, d) == t + d

\* attempt > maxAttempts: one attempt too many
AttemptsExhaustedOffByOne(a, m) == a > m

\* the attempt budget looked at only after the predicate let the error pass
AttemptsExhaustedAfterPredicate(a, m) == a >= m /\ ~(cfg.condition # "nil" /\ ~Accepts(cfg.condition, err'))

\* attempt >= maxAttempts
AttemptsExhausted(a, m) == a >= m

\* the deadline check left to the clamp that follows it
PastDeadlineSkipped(t, dl) == FALSE

\* cfg.clock.Now().After(deadline)
PastDeadline(t, dl) == t > dl

\* the comparison of the clamp turned round: the larger of the two
ClampMax(d, remaining) == IF d < remaining THEN remaining ELSE d

\* the clamp left out
ClampNone(d, remaining) == d

\* if delay > remaining { delay = remaining }
Clamp(d, remaining) == IF d > remaining THEN remaining ELSE d

\* if delay <= 0: nothing left of the budget
NoBudgetLeft(d) == d <= 0

\* the negation of the predicate left out
RejectedInverted(e) == cfg.condition # "nil" /\ Accepts(cfg.condition, e)

\* the predicate looked at only after the deadline check
RejectedAfterDeadline(e) == cfg.condition # "nil" /\ ~Accepts(cfg.condition, e) /\ ~(cfg.maxDuration > 0 /\ PastDeadline(now', deadline))

\* cfg.condition != nil && !cfg.condition(err)
Rejected(e) == cfg.condition # "nil" /\ ~Accepts(cfg.condition, e)

\* the first error kept in place of the most recent one
RecordLastKeepsFirst(e) == IF cfg.allErrors THEN lastErr ELSE IF lastErr = Nil THEN e ELSE lastErr

\* errs overwritten in place of appended to
RecordErrsReplaces(e) == IF cfg.allErrors THEN <<e>> ELSE errs

\* the error of the attempt not written to lastErr
RecordLastNotKept(e) == lastErr

\* lastErr and errs after "collect or replace error"
RecordLast(e) == IF cfg.allErrors THEN lastErr ELSE e
RecordErrs(e) == IF cfg.allErrors THEN Append(errs, e) ELSE errs

\* an error value of the loop's own returned in place of the recorded ones
RecordedSentinel(l, es) == Ret(<<"retry: exhausted">>)

\* if cfg.allErrors { return joinErrors(errs) }; return lastErr
Recorded(l, es) == IF cfg.allErrors THEN joinErrors(es) ELSE Ret(l)

\* the success hook handed a 0-based attempt number
CallOnSuccessZeroBased(tr, a) == IF cfg.onSuccess THEN Append(tr, Event("onSuccess", a - 1, Nil, 0)) ELSE tr

\* the exhaustion hook called at the check and once more on the way out
CallOnExhaustedTwice(tr, a, e) == IF cfg.onExhausted THEN Append(Append(tr, Event("onExhausted", a, e, 0)), Event("onExhausted", a, e, 0)) ELSE tr

\* the exhaustion hook handed the first error of the run
CallOnExhaustedFirstError(tr, a, e) == IF cfg.onExhausted THEN Append(tr, Event("onExhausted", a, tr[1].err, 0)) ELSE tr

\* the hook calls, each guarded by "!= nil"
CallOnSuccess(tr, a) == IF cfg.onSuccess THEN Append(tr, Event("onSuccess", a, Nil, 0)) ELSE tr
CallOnExhausted(tr, a, e) == IF cfg.onExhausted THEN Append(tr, Event("onExhausted", a, e, 0)) ELSE tr
\* the hook told the number of the attempt to come
CallOnRetryNextAttempt(tr, a, e, d) == IF cfg.onRetry THEN Append(tr, Event("onRetry", a + 1, e, d)) ELSE tr

CallOnRetry(tr, a, e, d) == IF cfg.onRetry THEN Append(tr, Event("onRetry", a, e, d)) ELSE tr

\* the terminal error's cause added to the errors collected so far
StopResultJoined(e) == IF cfg.allErrors THEN joinErrors(Append(errs, StopUnwrap(e))) ELSE Ret(StopUnwrap(e))

\* return stopped.Unwrap(): the recorded errors play no part
StopResult(e) == Ret(StopUnwrap(e))

\* execute returns res; st names the exit
Return(st, res, tr) ==
  /\ pc' = "done"
  /\ state' = st
  /\ result' = res
  /\ trace' = tr

\* the error of Sleep returned in place of the recorded errors
SleepFailedReturnsCtxErr == Return("Cancelled", Ret(CtxErr), Append(trace, Event("sleep", attempt, CtxErr, delay)))

\* a cancelled sleep reported to the exhaustion hook
SleepFailedExhausted == Return("Cancelled", Recorded(lastErr, errs), CallOnExhausted(Append(trace, Event("sleep", attempt, CtxErr, delay)), attempt, err))

\* execute, lines 401-406: Sleep returned an error
SleepFailed == Return("Cancelled", Recorded(lastErr, errs), Append(trace, Event("sleep", attempt, CtxErr, delay)))

\* ---------------------------------------------------------------- actions
\* the attempt counter started at 0
BeginFromZero ==
  /\ pc = "start"
  /\ deadline' = IF cfg.maxDuration > 0 THEN DeadlineAt(now, cfg.maxDuration) ELSE 0
  /\ maxAttempts' = EffectiveMax(cfg.maxAttempts)
  /\ attempt' = 0
  /\ pc' = "call"
  /\ UNCHANGED <<cfg, state, err, lastErr, errs, delay, now, cancelled, result, trace>>
  /\ UNCHANGED shared

\* ctx looked at before the first attempt: a cancelled one ends the run there
BeginChecksCtx ==
  /\ pc = "start"
  /\ deadline' = IF cfg.maxDuration > 0 THEN DeadlineAt(now, cfg.maxDuration) ELSE 0
  /\ maxAttempts' = EffectiveMax(cfg.maxAttempts)
  /\ attempt' = 1
  /\ IF cancelled
     THEN Return("Cancelled", Ret(CtxErr), trace)
     ELSE /\ pc' = "call"
          /\ UNCHANGED <<state, result, trace>>
  /\ UNCHANGED <<cfg, err, lastErr, errs, delay, now, cancelled>>
  /\ UNCHANGED shared

\* execute, lines 312-323: the deadline and the effective attempt budget
Begin ==
  /\ pc = "start"
  /\ deadline' = IF cfg.maxDuration > 0 THEN DeadlineAt(now, cfg.maxDuration) ELSE 0
  /\ maxAttempts' = EffectiveMax(cfg.maxAttempts)
  /\ attempt' = 1
  /\ pc' = "call"
  /\ UNCHANGED <<cfg, state, err, lastErr, errs, delay, now, cancelled, result, trace>>
  /\ UNCHANGED shared

\* execute, lines 326-375: one call of the operation, which runs for t and
\* returns e, and the exits that follow it
Attempt(e, t) ==
  /\ pc = "call"
  /\ now' = now + t
  /\ err' = e
  /\ LET tr == Append(trace, Event("fn", attempt, e, t))
         l == RecordLast(e)
         es == RecordErrs(e)
     IN IF e = Nil
        THEN /\ Return("Success", ErrNil, CallOnSuccess(tr, attempt))
             /\ UNCHANGED <<lastErr, errs>>
        ELSE IF HasStop(e)
        THEN /\ Return("Stopped", StopResult(e), tr)
             /\ UNCHANGED <<lastErr, errs>>
        ELSE /\ lastErr' = l
             /\ errs' = es
             /\ IF AttemptsExhausted(attempt, maxAttempts)
                THEN Return("Exhausted", Recorded(l, es), CallOnExhausted(tr, attempt, e))
                ELSE IF Rejected(e)
                THEN Return("ConditionRejected", Recorded(l, es), Append(tr, Event("condition", attempt, e, 0)))
                ELSE LET tc == IF cfg.condition # "nil" THEN Append(tr, Event("condition", attempt, e, 0)) ELSE tr
                     IN IF cfg.maxDuration > 0 /\ PastDeadline(now', deadline)
                        THEN Return("Exhausted", Recorded(l, es), CallOnExhausted(tc, attempt, e))
                        ELSE /\ pc' = "delay"
                             /\ trace' = tc
                             /\ UNCHANGED <<state, result>>
  /\ UNCHANGED <<cfg, attempt, maxAttempts, deadline, delay, cancelled>>
  /\ UNCHANGED shared

\* execute reads the clock only when a duration budget is set: without one
\* the running time of the operation is not observable and is taken as 0
RunTimes == IF cfg.maxDuration > 0 THEN OpTimes ELSE {0}

CallFn == \E e \in OpErrors, t \in RunTimes : Attempt(e, t)

\* execute, lines 377-399: the delay, clamped to what is left of the budget.
\* The real clock may have moved by dt since the deadline check read it.
ComputeDelay(dt) ==
  /\ pc = "delay"
  /\ now' = now + dt
  /\ LET d0 == Delay(cfg.backoff, attempt)
         remaining == deadline - now'
         d == IF cfg.maxDuration > 0 THEN Clamp(d0, remaining) ELSE d0
         tr == Append(trace, Event("backoff", attempt, Nil, d0))
     IN IF cfg.maxDuration > 0 /\ NoBudgetLeft(d)
        THEN /\ Return("Exhausted", Recorded(lastErr, errs), CallOnExhausted(tr, attempt, err))
             /\ UNCHANGED delay
        ELSE /\ delay' = d
             /\ trace' = CallOnRetry(tr, attempt, err, d)
             /\ pc' = "sleep"
             /\ UNCHANGED <<state, result>>
  /\ UNCHANGED <<cfg, attempt, maxAttempts, deadline, err, lastErr, errs, cancelled>>
  /\ UNCHANGED shared

Drifts == IF cfg.clock = "real" /\ cfg.maxDuration > 0 THEN 0..MaxDrift ELSE {0}

CalcDelay == \E dt \in Drifts : ComputeDelay(dt)

\* the loop written with its bound in the for clause and one too small: the
\* sleep that follows the last attempt it makes is the end of the run
SleptThenOutOfLoop(tr, t) ==
  /\ now' = t
  /\ IF attempt + 1 >= maxAttempts
     THEN /\ Return("Exhausted", Recorded(lastErr, errs), CallOnExhausted(tr, attempt, err))
          /\ UNCHANGED attempt
     ELSE /\ attempt' = attempt + 1
          /\ pc' = "call"
          /\ trace' = tr
          /\ UNCHANGED <<state, result>>

\* the loop left where it is when Sleep has returned: no next attempt, no
\* return
SleptAndStays(tr, t) == UNCHANGED <<now, attempt, pc, trace, state, result>>

\* execute, lines 401-407 and the loop's attempt++: Sleep returned nil at
\* time t, the next attempt follows
Slept(tr, t) ==
  /\ now' = t
  /\ attempt' = attempt + 1
  /\ pc' = "call"
  /\ trace' = tr
  /\ UNCHANGED <<state, result>>

\* execute, lines 401-407 with fakeClock.Sleep: a cancelled context is
\* reported, otherwise the clock jumps by the delay
SleepFake ==
  /\ pc = "sleep"
  /\ cfg.clock = "fake"
  /\ IF cancelled
     THEN /\ SleepFailed
          /\ UNCHANGED <<now, attempt>>
     ELSE Slept(Append(trace, Event("sleep", attempt, Nil, delay)), now + delay)
  /\ UNCHANGED <<cfg, maxAttempts, deadline, err, lastErr, errs, delay, cancelled>>
  /\ UNCHANGED shared

\* execute, lines 401-407 with realClock.Sleep when the timer's channel is
\* the case the select takes: the delay (and over) has passed
SleepRealElapsed(over) ==
  /\ pc = "sleep"
  /\ cfg.clock = "real"
  /\ Slept(Append(trace, Event("sleep", attempt, Nil, delay)), now + (IF delay > 0 THEN delay ELSE 0) + over)
  /\ UNCHANGED <<cfg, maxAttempts, deadline, err, lastErr, errs, delay, cancelled>>
  /\ UNCHANGED shared

\* execute, lines 401-407 with realClock.Sleep when ctx.Done() is the case
\* the select takes
SleepRealCancelled ==
  /\ pc = "sleep"
  /\ cfg.clock = "real"
  /\ cancelled
  /\ SleepFailed
  /\ UNCHANGED <<cfg, attempt, maxAttempts, deadline, err, lastErr, errs, delay, now, cancelled>>
  /\ UNCHANGED shared

SleepReal == \/ \E over \in Drifts : SleepRealElapsed(over)
             \/ SleepRealCancelled

\* the caller cancels ctx, at any time before Do returns
Cancel ==
  /\ pc # "done"
  /\ ~cancelled
  /\ cancelled' = TRUE
  /\ UNCHANGED <<cfg, pc, state, attempt, maxAttempts, deadline, err, lastErr, errs, delay, now, result, trace>>
  /\ UNCHANGED shared

Next == Begin \/ CallFn \/ CalcDelay \/ SleepFake \/ SleepReal \/ Cancel

Spec == Init /\ [][Next]_vars

\* a step of the goroutine that runs execute: every call it makes (the
\* operation, the predicate, the hooks, the backoff, the clock) returns
Step == Begin \/ CallFn \/ CalcDelay \/ SleepFake \/ SleepReal

\* the run of Do when the goroutine is scheduled and its calls return
SpecFair == Init /\ [][Next]_vars /\ WF_vars(Step)

\* -------------------------------------------- Do with a cancelled context
\* execute is entered with a merged config and a ctx that is already done
InitCancelled ==
  /\ cfg \in Configs
  /\ pc = "start"
  /\ state = "Running"
  /\ attempt = 0
  /\ maxAttempts = 0
  /\ deadline = 0
  /\ err = Nil
  /\ lastErr = Nil
  /\ errs = <<>>
  /\ delay = 0
  /\ now = 0
  /\ cancelled = TRUE
  /\ result = ErrNil
  /\ trace = <<>>
  /\ policy = PolicyOf(cfg)
  /\ callOpts = <<>>
  /\ self = 1
  /\ parked = NoCall
  /\ NoSleepCall
  /\ NoBackoffCall

SpecCancelled == InitCancelled /\ [][Step]_vars

\* ------------------------------------- two invocations of Do on one Policy
\* the locals of the running invocation
Locals == [self |-> self, callOpts |-> callOpts, cfg |-> cfg, pc |-> pc, state |-> state, attempt |-> attempt, maxAttempts |-> maxAttempts, deadline |-> deadline, err |-> err, lastErr |-> lastErr, errs |-> errs, delay |-> delay, now |-> now, cancelled |-> cancelled, result |-> result, trace |-> trace]

\* an invocation that has not called Policy.Do yet
Idle(id, opts) == [self |-> id, callOpts |-> opts, cfg |-> ZeroConfig, pc |-> "idle", state |-> "Running", attempt |-> 0, maxAttempts |-> 0, deadline |-> 0, err |-> Nil, lastErr |-> Nil, errs |-> <<>>, delay |-> 0, now |-> 0, cancelled |-> FALSE, result |-> ErrNil, trace |-> <<>>]

\* a Policy built by New and two invocations of its Do, each with its own
\* options, context and clock
InitPolicy ==
  /\ \E o \in PolicyOptionLists : policy = New(o)
  /\ callOpts \in CallOptionLists
  /\ self = 1
  /\ \E o \in CallOptionLists : parked = Idle(2, o)
  /\ cfg = ZeroConfig
  /\ pc = "idle"
  /\ state = "Running"
  /\ attempt = 0
  /\ maxAttempts = 0
  /\ deadline = 0
  /\ err = Nil
  /\ lastErr = Nil
  /\ errs = <<>>
  /\ delay = 0
  /\ now = 0
  /\ cancelled = FALSE
  /\ result = ErrNil
  /\ trace = <<>>
  /\ NoSleepCall
  /\ NoBackoffCall

\* Policy.Do, lines 297-308: the config of this call
Invoke ==
  /\ pc = "idle"
  /\ cfg' = PolicyDoConfig(policy, callOpts)
  /\ policy' = PolicyAfterDo(policy, callOpts)
  /\ pc' = "start"
  /\ UNCHANGED <<state, attempt, maxAttempts, deadline, err, lastErr, errs, delay, now, cancelled, result, trace, callOpts, self, parked, sleepVars, backoffVars>>

\* the operations of the two invocations return nil or an ordinary error
\* at once
PolicyOpErrors == {Nil, E1}
CallFnPolicy == \E e \in PolicyOpErrors : Attempt(e, 0)

\* the attempt counter kept in one place for all invocations: the counter
\* stays as the invocation that ran last left it
SwitchSharedAttempt ==
  /\ parked.pc # "none"
  /\ parked' = Locals
  /\ self' = parked.self
  /\ callOpts' = parked.callOpts
  /\ cfg' = parked.cfg
  /\ pc' = parked.pc
  /\ state' = parked.state
  /\ attempt' = attempt
  /\ maxAttempts' = parked.maxAttempts
  /\ deadline' = parked.deadline
  /\ err' = parked.err
  /\ lastErr' = parked.lastErr
  /\ errs' = parked.errs
  /\ delay' = parked.delay
  /\ now' = parked.now
  /\ cancelled' = parked.cancelled
  /\ result' = parked.result
  /\ trace' = parked.trace
  /\ UNCHANGED <<policy, sleepVars, backoffVars>>

\* the scheduler takes the running invocation off and puts the other one on
Switch ==
  /\ parked.pc # "none"
  /\ parked' = Locals
  /\ self' = parked.self
  /\ callOpts' = parked.callOpts
  /\ cfg' = parked.cfg
  /\ pc' = parked.pc
  /\ state' = parked.state
  /\ attempt' = parked.attempt
  /\ maxAttempts' = parked.maxAttempts
  /\ deadline' = parked.deadline
  /\ err' = parked.err
  /\ lastErr' = parked.lastErr
  /\ errs' = parked.errs
  /\ delay' = parked.delay
  /\ now' = parked.now
  /\ cancelled' = parked.cancelled
  /\ result' = parked.result
  /\ trace' = parked.trace
  /\ UNCHANGED <<policy, sleepVars, backoffVars>>

NextPolicy == Invoke \/ Begin \/ CallFnPolicy \/ CalcDelay \/ SleepFake \/ SleepReal \/ Cancel \/ Switch

SpecPolicy == InitPolicy /\ [][NextPolicy]_vars

\* --------------------------- the package-level Do next to New(...).Do(...)
\* the config zeroed: none of Do's defaults set
DoConfigNoDefaults(opts) == ApplyOptions([ZeroConfig EXCEPT !.condition = "default"], opts)

\* Do, lines 283-292: the defaults, then the options
DoConfig(opts) == ApplyOptions([ZeroConfig EXCEPT !.maxAttempts = DefaultMaxAttempts, !.backoff = Exponential(1), !.clock = "real", !.condition = "default"], opts)

\* invocation 1 is Do(ctx, fn, P..., C...), invocation 2 is
\* New(P...).Do(ctx, fn, C...), for policy-level options P and options C
InitDo ==
  /\ \E P \in PolicyOptionLists, C \in CallOptionLists :
       /\ policy = New(P)
       /\ callOpts = P \o C
       /\ parked = Idle(2, C)
  /\ self = 1
  /\ cfg = ZeroConfig
  /\ pc = "idle"
  /\ state = "Running"
  /\ attempt = 0
  /\ maxAttempts = 0
  /\ deadline = 0
  /\ err = Nil
  /\ lastErr = Nil
  /\ errs = <<>>
  /\ delay = 0
  /\ now = 0
  /\ cancelled = FALSE
  /\ result = ErrNil
  /\ trace = <<>>
  /\ NoSleepCall
  /\ NoBackoffCall

\* Do, lines 282-294: the config of the call
InvokeDo ==
  /\ pc = "idle"
  /\ self = 1
  /\ cfg' = DoConfig(callOpts)
  /\ pc' = "start"
  /\ UNCHANGED <<state, attempt, maxAttempts, deadline, err, lastErr, errs, delay, now, cancelled, result, trace>>
  /\ UNCHANGED shared

\* Policy.Do, lines 297-308
InvokePolicyDo == self = 2 /\ Invoke

\* the operation returns nil, an ordinary error or a terminal one at once
DoOpErrors == {Nil, E1, E2, Stop(E1)}
CallFnDo == \E e \in DoOpErrors : Attempt(e, 0)

NextDo == InvokeDo \/ InvokePolicyDo \/ Begin \/ CallFnDo \/ CalcDelay \/ SleepFake \/ SleepReal \/ Cancel \/ Switch

SpecDo == InitDo /\ [][NextDo]_vars

\* ------------------------------------------------- realClock.Sleep on its own
\* no call of Do is under way
NoLoop ==
  /\ cfg = ZeroConfig
  /\ pc = "idle"
  /\ state = "Running"
  /\ attempt = 0
  /\ maxAttempts = 0
  /\ deadline = 0
  /\ err = Nil
  /\ lastErr = Nil
  /\ errs = <<>>
  /\ delay = 0
  /\ now = 0
  /\ cancelled = FALSE
  /\ result = ErrNil
  /\ trace = <<>>
  /\ policy = PolicyOf(ZeroConfig)
  /\ callOpts = <<>>
  /\ self = 0
  /\ parked = NoCall

loopVars == <<cfg, pc, state, attempt, maxAttempts, deadline, err, lastErr, errs, delay, now, cancelled, result, trace, policy, callOpts, self, parked>>

\* the durations Sleep is called with
SleepDurations == {0 - 1, 0, 1, MaxElapsed}

\* Sleep is called with a duration and a context that may be cancelled
\* already
InitSleep ==
  /\ NoLoop
  /\ NoBackoffCall
  /\ sleepD \in SleepDurations
  /\ ctxDone \in BOOLEAN
  /\ order = IF ctxDone THEN <<"cancel">> ELSE <<>>
  /\ asynctimerchan \in BOOLEAN
  /\ timer = "none"
  /\ timerC = 0
  /\ spc = "call"
  /\ sleepRet = "none"
  /\ elapsed = 0

\* line 22: timer := time.NewTimer(d)
NewTimer ==
  /\ spc = "call"
  /\ timer' = "armed"
  /\ spc' = "select"
  /\ UNCHANGED <<sleepD, timerC, ctxDone, sleepRet, order, elapsed, asynctimerchan>>
  /\ UNCHANGED <<loopVars, backoffVars>>

\* time passes
Tick ==
  /\ spc # "done"
  /\ elapsed < MaxElapsed
  /\ elapsed' = elapsed + 1
  /\ UNCHANGED <<sleepD, timer, timerC, ctxDone, spc, sleepRet, order, asynctimerchan>>
  /\ UNCHANGED <<loopVars, backoffVars>>

\* the runtime: the timer expires once d has passed (at once for d <= 0) and
\* sends the time on timer.C
TimerFire ==
  /\ timer = "armed"
  /\ elapsed >= sleepD
  /\ timer' = "fired"
  /\ timerC' = 1
  /\ order' = Append(order, "fire")
  /\ UNCHANGED <<sleepD, ctxDone, spc, sleepRet, elapsed, asynctimerchan>>
  /\ UNCHANGED <<loopVars, backoffVars>>

\* the caller cancels ctx
CancelCtx ==
  /\ ~ctxDone
  /\ spc # "done"
  /\ ctxDone' = TRUE
  /\ order' = Append(order, "cancel")
  /\ UNCHANGED <<sleepD, timer, timerC, spc, sleepRet, elapsed, asynctimerchan>>
  /\ UNCHANGED <<loopVars, backoffVars>>

\* lines 23-25: the select takes case <-timer.C, which can proceed
SelectTimer ==
  /\ spc = "select"
  /\ timerC = 1
  /\ timerC' = 0
  /\ sleepRet' = "nil"
  /\ spc' = "done"
  /\ UNCHANGED <<sleepD, timer, ctxDone, order, elapsed, asynctimerchan>>
  /\ UNCHANGED <<loopVars, backoffVars>>

\* lines 23 and 26: the select takes case <-ctx.Done(), which can proceed
SelectDone ==
  /\ spc = "select"
  /\ ctxDone
  /\ spc' = "stop"
  /\ UNCHANGED <<sleepD, timer, timerC, ctxDone, sleepRet, order, elapsed, asynctimerchan>>
  /\ UNCHANGED <<loopVars, backoffVars>>

\* the drain made when Stop says it stopped the timer
NeedsDrainInverted(stopped) == stopped

\* line 27: if !timer.Stop()
NeedsDrain(stopped) == ~stopped

\* lines 27-30: timer.Stop() stops an armed timer and returns true. For a
\* timer that has expired it returns false and leaves the value in timer.C
\* (buffered timer channels), or discards the value and returns true (Go
\* 1.23 and later). Without a drain Sleep returns ctx.Err().
StopTimer ==
  /\ spc = "stop"
  /\ LET stopped == timer = "armed" \/ ~asynctimerchan
     IN /\ timer' = IF timer = "armed" THEN "stopped" ELSE timer
        /\ timerC' = IF stopped THEN 0 ELSE timerC
        /\ IF NeedsDrain(stopped)
           THEN spc' = "drain" /\ UNCHANGED sleepRet
           ELSE spc' = "done" /\ sleepRet' = "ctxErr"
  /\ UNCHANGED <<sleepD, ctxDone, order, elapsed, asynctimerchan>>
  /\ UNCHANGED <<loopVars, backoffVars>>

\* lines 28-30: <-timer.C, then return ctx.Err()
Drain ==
  /\ spc = "drain"
  /\ timerC = 1
  /\ timerC' = 0
  /\ sleepRet' = "ctxErr"
  /\ spc' = "done"
  /\ UNCHANGED <<sleepD, timer, ctxDone, order, elapsed, asynctimerchan>>
  /\ UNCHANGED <<loopVars, backoffVars>>

\* the steps of the goroutine that called Sleep
SleepStep == NewTimer \/ SelectTimer \/ SelectDone \/ StopTimer \/ Drain

NextSleep == NewTimer \/ Tick \/ TimerFire \/ CancelCtx \/ SelectTimer \/ SelectDone \/ StopTimer \/ Drain

\* the scheduler runs a goroutine that can run, time passes, and the runtime
\* fires a timer that is due
SpecSleep == InitSleep /\ [][NextSleep]_vars /\ WF_vars(SleepStep) /\ WF_vars(Tick) /\ WF_vars(TimerFire)

\* --------------------------------------------------- Backoff.Delay on its own
\* the durations the strategies are built from: 0, 1ns, 4ns, the 100ms of
\* the tests, and the largest duration
Bases == {Dur(0), Dur(1), Dur(4), Dur(100000000), MaxInt64}
\* the bounds of WithCap and WithMin
Limits == {Dur(0 - 2), Dur(0), Dur(3), Dur(500000000)}
\* the factors of WithJitter: -0.5, 0, 0.25, 0.5, 1 and 2 at FactorShift 2
Factors == {0 - 2, 0, 1, 2, 2^FactorShift, 2 * 2^FactorShift}
\* the values of rand.Float64(): 0, the smallest step, 0.5 and the largest
\* value below 1
DrawValues == {0, 1, 2^(DrawShift - 1), 2^DrawShift - 1}
\* the attempt numbers Delay is called with
Attempts == {0 - 1, 0, 1, 2, 37, 38, 62, 63, 10000}

Plain == {Constant(b) : b \in Bases} \cup {Linear(b) : b \in Bases} \cup {Exponential(b) : b \in Bases}
Wrapped(S, limits, factors) ==
  {WithCap(m, s) : m \in limits, s \in S} \cup {WithMin(m, s) : m \in limits, s \in S} \cup {WithJitter(f, s) : f \in factors, s \in S}
\* the strategies: every strategy with at most one wrapper, and a second
\* wrapper of each kind around the wrapped forms of three of them
Nested == {Exponential(Dur(100000000)), Linear(Dur(1)), Constant(MaxInt64)}
Strategies == Plain \cup Wrapped(Plain, Limits, Factors) \cup Wrapped(Wrapped(Nested, Limits, Factors), {Dur(3)}, {0 - 2, 2})

\* Delay is called on a strategy with an attempt number
InitBackoff ==
  /\ NoLoop
  /\ NoSleepCall
  /\ strategy \in Strategies
  /\ attemptArg \in Attempts
  /\ draw = <<>>
  /\ convs = "none"
  /\ out = "none"
  /\ bpc = "call"

\* the call returns what the strategy computes, on either build and for
\* every value of the random source
CallDelay ==
  /\ bpc = "call"
  /\ \E us \in [1..JitterLayers(strategy) -> DrawValues], arch \in (IF JitterLayers(strategy) = 0 THEN {"amd64"} ELSE Archs) :
       /\ draw' = us
       /\ convs' = arch
       /\ out' = DelayInt64(strategy, attemptArg, us, arch)
  /\ bpc' = "done"
  /\ UNCHANGED <<strategy, attemptArg>>
  /\ UNCHANGED <<loopVars, sleepVars>>

NextBackoff == CallDelay

SpecBackoff == InitBackoff /\ [][NextBackoff]_vars

\* ------------------------------------------------ reading the trace of a run
IsFn(x) == x.ev = "fn"
IsSleep(x) == x.ev = "sleep"
IsOnRetry(x) == x.ev = "onRetry"
IsOnSuccess(x) == x.ev = "onSuccess"
IsOnExhausted(x) == x.ev = "onExhausted"
IsCondition(x) == x.ev = "condition"
IsBackoff(x) == x.ev = "backoff"

Fns == SelectSeq(trace, IsFn)
Sleeps == SelectSeq(trace, IsSleep)
OnRetries == SelectSeq(trace, IsOnRetry)
OnSuccesses == SelectSeq(trace, IsOnSuccess)
OnExhausteds == SelectSeq(trace, IsOnExhausted)
ConditionCalls == SelectSeq(trace, IsCondition)
BackoffCalls == SelectSeq(trace, IsBackoff)

\* the errors the operation returned, in attempt order
FnErrs == [i \in 1..Len(Fns) |-> Fns[i].err]

\* the failure the recorded errors amount to: the most recent error, or in
\* aggregation mode all of them (a single one is returned as it is)
ExpectedFailure ==
  IF cfg.allErrors /\ Len(FnErrs) > 1
  THEN [join |-> TRUE, errs |-> FnErrs]
  ELSE [join |-> FALSE, errs |-> <<FnErrs[Len(FnErrs)]>>]

\* errors.Is(res, target): target is res, or an error res wraps, or for a
\* joined error one that a part of it is or wraps
Layers(e) == {SubSeq(e, i, Len(e)) : i \in 1..Len(e)}
ErrorsIs(res, target) == \E j \in 1..Len(res.errs) : target \in Layers(res.errs[j])

\* Do returned a failure made of the errors it recorded
FailedWithRecorded == pc = "done" /\ state \in {"Exhausted", "ConditionRejected", "Cancelled"}

\* the predicate, if one is configured, accepts e
Accepted(e) == cfg.condition = "nil" \/ Accepts(cfg.condition, e)

\* e is a failure without the terminal marker
Transient(e) == e # Nil /\ ~HasStop(e)

\* ------------------------------------------------------------------ claims
\* C1: with max_attempts N >= 1, no duration budget, no cancellation, and an
\* operation that fails on every attempt with a non-terminal error that the
\* predicate accepts, Do invokes the operation exactly N times, invokes the
\* exhaustion hook exactly once, with attempt N and the N-th error, and
\* returns a failure.
C1_Premise ==
  /\ pc = "done"
  /\ cfg.maxAttempts >= 1
  /\ cfg.maxDuration = 0
  /\ ~cancelled
  /\ \A i \in 1..Len(Fns) : Transient(Fns[i].err) /\ Accepted(Fns[i].err)

C1_ExhaustsAllAttempts ==
  C1_Premise =>
    /\ Len(Fns) = cfg.maxAttempts
    /\ \A i \in 1..Len(Fns) : Fns[i].attempt = i
    /\ state = "Exhausted"
    /\ result # ErrNil
    /\ cfg.onExhausted => OnExhausteds = <<Event("onExhausted", cfg.maxAttempts, Fns[cfg.maxAttempts].err, 0)>>

C1_Witness ==
  /\ C1_Premise
  /\ cfg.maxAttempts = 3
  /\ cfg.onExhausted
  /\ Len(Fns) = 3
  /\ Len(OnExhausteds) = 1

C3_SuccessEndsRun ==
  \A i \in 1..Len(trace) :
    (trace[i].ev = "fn" /\ trace[i].err = Nil) =>
      LET k == trace[i].attempt
      IN /\ pc = "done"
         /\ state = "Success"
         /\ result = ErrNil
         /\ Len(Fns) = k
         /\ k <= maxAttempts
         /\ OnExhausteds = <<>>
         /\ cfg.onSuccess => (Len(trace) = i + 1 /\ OnSuccesses = <<Event("onSuccess", k, Nil, 0)>> /\ trace[i + 1].ev = "onSuccess")
         /\ ~cfg.onSuccess => (Len(trace) = i /\ OnSuccesses = <<>>)

C3_Witness ==
  /\ state = "Success"
  /\ Len(Fns) = 3
  /\ cfg.allErrors
  /\ cfg.onSuccess
  /\ Len(OnSuccesses) = 1
  /\ Len(Sleeps) = 2

\* C4: when a predicate is configured and rejects the non-terminal error of
\* attempt k < max_attempts, Do returns the recorded error(s) after exactly k
\* invocations of the operation; the predicate is the last call of the run:
\* no exhaustion hook, no retry hook for attempt k, no sleep after it.
C4_PredicateRejects ==
  \A i \in 1..Len(trace) :
    (/\ trace[i].ev = "fn"
     /\ Transient(trace[i].err)
     /\ trace[i].attempt < maxAttempts
     /\ cfg.condition # "nil"
     /\ ~Accepts(cfg.condition, trace[i].err)) =>
      LET k == trace[i].attempt
      IN /\ pc = "done"
         /\ state = "ConditionRejected"
         /\ Len(trace) = i + 1
         /\ trace[i + 1] = Event("condition", k, trace[i].err, 0)
         /\ Len(Fns) = k
         /\ result = ExpectedFailure
         /\ OnExhausteds = <<>>
         /\ \A j \in 1..Len(trace) : trace[j].ev \in {"onRetry", "sleep"} => trace[j].attempt < k

C4_Witness ==
  /\ state = "ConditionRejected"
  /\ Len(Fns) = 2
  /\ maxAttempts = 3
  /\ cfg.onExhausted /\ cfg.onRetry
  /\ cfg.allErrors
  /\ result.join

\* C5: when the sleep after failed attempt k reports cancellation, Do returns
\* at once with the error(s) recorded up to attempt k (in default mode the
\* error of attempt k): the sleep is the last call of the run, the operation
\* has been invoked k times and the exhaustion hook is not invoked.
C5_CancelledSleepReturns ==
  \A i \in 1..Len(trace) :
    (trace[i].ev = "sleep" /\ trace[i].err # Nil) =>
      LET k == trace[i].attempt
      IN /\ pc = "done"
         /\ state = "Cancelled"
         /\ i = Len(trace)
         /\ Len(Fns) = k
         /\ result = ExpectedFailure
         /\ ~cfg.allErrors => result = [join |-> FALSE, errs |-> <<Fns[k].err>>]
         /\ OnExhausteds = <<>>

C5_Witness ==
  /\ state = "Cancelled"
  /\ Len(Fns) = 2
  /\ maxAttempts = 3
  /\ cfg.onExhausted
  /\ cancelled
  /\ trace[Len(trace)] = Event("sleep", 2, CtxErr, delay)

\* C6 as stated: once the context is cancelled, a run that fails surfaces the
\* last recorded error and never invokes the exhaustion hook.
C6_CancellationNeverExhaustion ==
  (pc = "done" /\ cancelled /\ state \notin {"Success", "Stopped"}) =>
    /\ result = ExpectedFailure
    /\ OnExhausteds = <<>>

\* C6 as amended: only a cancellation that the inter-attempt sleep reports
\* ends the run as Cancelled, without the exhaustion hook; a cancellation the
\* loop does not observe (it fires while an attempt runs) changes nothing:
\* when the attempt budget or the duration budget ends the run, the run is
\* Exhausted and the hook is invoked once.  The recorded error(s) are
\* surfaced either way.
C6_CancelledSleepNotExhaustion ==
  (pc = "done" /\ cancelled /\ state \notin {"Success", "Stopped"}) =>
    /\ result = ExpectedFailure
    /\ state = "Cancelled" =>
         /\ OnExhausteds = <<>>
         /\ trace[Len(trace)].ev = "sleep"
         /\ trace[Len(trace)].err = CtxErr
    /\ state = "ConditionRejected" => OnExhausteds = <<>>
    /\ state = "Exhausted" =>
         /\ Len(Fns) = maxAttempts \/ cfg.maxDuration > 0
         /\ \A i \in 1..Len(trace) : trace[i].ev = "sleep" => trace[i].err = Nil
         /\ cfg.onExhausted => OnExhausteds = <<Event("onExhausted", Len(Fns), Fns[Len(Fns)].err, 0)>>

C6_Witness ==
  /\ pc = "done"
  /\ cancelled
  /\ cfg.clock = "fake"
  /\ state = "Exhausted"
  /\ cfg.maxDuration = 0
  /\ Len(Fns) = 2
  /\ Len(Sleeps) = 1
  /\ Len(OnExhausteds) = 1

\* C7: with a duration budget D (deadline = time at entry + D, never changed)
\* a failed attempt k < max_attempts whose non-terminal error the predicate
\* accepts and which ends past the deadline ends the run as Exhausted: the
\* recorded error(s) are returned, the exhaustion hook is invoked once with
\* k and that error, and neither the backoff, the retry hook nor the sleep is
\* called.
C7_Step ==
  (/\ pc = "call"
   /\ pc' # "call"
   /\ cfg.maxDuration > 0
   /\ Transient(err')
   /\ attempt < maxAttempts
   /\ Accepted(err')
   /\ now' > deadline) =>
     LET t1 == Append(trace, Event("fn", attempt, err', now' - now))
         t2 == IF cfg.condition # "nil" THEN Append(t1, Event("condition", attempt, err', 0)) ELSE t1
         t3 == IF cfg.onExhausted THEN Append(t2, Event("onExhausted", attempt, err', 0)) ELSE t2
     IN /\ deadline = cfg.maxDuration
        /\ deadline' = deadline
        /\ pc' = "done"
        /\ state' = "Exhausted"
        /\ result' = ExpectedFailure'
        /\ trace' = t3
        /\ cfg.onExhausted => Len(OnExhausteds') = 1

C7_DeadlinePassedExhausts == [][C7_Step]_vars

C7_Witness ==
  /\ state = "Exhausted"
  /\ cfg.clock = "fake"
  /\ cfg.maxDuration > 0
  /\ now > deadline
  /\ Len(Fns) = 2
  /\ maxAttempts = 3
  /\ cfg.condition = "notE2"
  /\ Len(BackoffCalls) = 1
  /\ Len(OnExhausteds) = 1

\* C8: with a duration budget, the delay handed to the retry hook and to the
\* clock's sleep is min(backoff.delay(attempt), deadline - now), is strictly
\* positive and at most the time remaining; when that minimum is <= 0 the
\* exhaustion hook is invoked and Do returns without retry hook or sleep.
C8_Step ==
  /\ (pc = "delay" /\ pc' # "delay" /\ cfg.maxDuration > 0) =>
       LET b == Delay(cfg.backoff, attempt)
           remaining == deadline - now'
           m == IF b < remaining THEN b ELSE remaining
       IN IF m <= 0
          THEN /\ pc' = "done"
               /\ state' = "Exhausted"
               /\ result' = ExpectedFailure'
               /\ Sleeps' = Sleeps
               /\ OnRetries' = OnRetries
               /\ cfg.onExhausted => trace'[Len(trace')] = Event("onExhausted", attempt, err, 0)
          ELSE /\ pc' = "sleep"
               /\ delay' = m
               /\ delay' > 0
               /\ delay' <= remaining
               /\ cfg.onRetry => trace'[Len(trace')] = Event("onRetry", attempt, err, m)
  /\ (pc = "sleep" /\ pc' # "sleep" /\ cfg.maxDuration > 0) =>
       /\ trace'[Len(trace')].ev = "sleep"
       /\ trace'[Len(trace')].d = delay
       /\ trace'[Len(trace')].d > 0
       /\ cfg.onRetry => trace[Len(trace)] = Event("onRetry", attempt, err, delay)

C8_DelayClampedToBudget == [][C8_Step]_vars

C8_Witness ==
  /\ pc = "call"
  /\ attempt = 2
  /\ cfg.maxDuration > 0
  /\ cfg.onRetry
  /\ Len(Sleeps) = 1
  /\ Sleeps[1].d = OnRetries[1].d
  /\ Sleeps[1].d < Delay(cfg.backoff, 1)
  /\ Sleeps[1].d = deadline - Fns[1].d

\* C9 as stated: with a duration budget, whenever time remains after a failed
\* non-final attempt that the predicate accepts, the loop goes on to the
\* sleep, for every non-negative delay the backoff returns, 0 included.
C9_Step ==
  (/\ pc = "delay"
   /\ pc' # "delay"
   /\ cfg.maxDuration > 0
   /\ Delay(cfg.backoff, attempt) >= 0
   /\ deadline - now' > 0) =>
     /\ pc' = "sleep"
     /\ state' = "Running"

C9_TimeRemainingContinues == [][C9_Step]_vars

\* C10: with a duration budget D and a clock that moves only by the running
\* time of the operation and by the requested sleep (the fake clock), every
\* sleep ends at or before the deadline, so every attempt after the first
\* starts at a time <= start + D, and no sleep starts once the budget is used
\* up; with D = 5, a constant delay of 1 and an operation that runs for 2 and
\* always fails, the run is Exhausted after 2 or 3 attempts.
C10_Example ==
  /\ pc = "done"
  /\ cfg.clock = "fake"
  /\ cfg.maxDuration = 5
  /\ cfg.backoff = Constant(1)
  /\ maxAttempts >= 3
  /\ ~cancelled
  /\ \A i \in 1..Len(Fns) : Fns[i].err = E1 /\ Fns[i].d = 2

C10_BudgetBoundsTheRun ==
  (cfg.clock = "fake" /\ cfg.maxDuration > 0 /\ pc # "start") =>
    /\ deadline = cfg.maxDuration
    /\ pc = "sleep" => (now < deadline /\ now + delay <= deadline)
    /\ (pc = "call" /\ attempt >= 2) => now <= deadline
    /\ C10_Example => (Len(Fns) \in {2, 3} /\ state = "Exhausted")

C10_Witness ==
  /\ C10_Example
  /\ cfg.maxAttempts = 3
  /\ Len(Fns) = 2
  /\ Len(Sleeps) = 1
  /\ now = deadline

\* C11: in default mode, on every failure exit (attempts exhausted, predicate
\* rejection, deadline, cancellation) after non-terminal errors E1..Ek, Do
\* returns exactly Ek, which matches Ek and none of the earlier errors that
\* differ from it.
C11_DefaultReturnsLast ==
  (FailedWithRecorded /\ ~cfg.allErrors) =>
    LET k == Len(Fns)
    IN /\ k >= 1
       /\ result = [join |-> FALSE, errs |-> <<Fns[k].err>>]
       /\ ErrorsIs(result, Fns[k].err)
       /\ \A i \in 1..(k - 1) : Fns[i].err # Fns[k].err => ~ErrorsIs(result, Fns[i].err)

C11_Witness ==
  /\ FailedWithRecorded
  /\ ~cfg.allErrors
  /\ state = "Cancelled"
  /\ FnErrs = <<E1, E2>>
  /\ result = Ret(E2)

\* C12: in aggregation mode, on every failure exit after non-terminal errors
\* E1..Ek, the value Do returns holds exactly one entry per failed attempt, in
\* attempt order, so that it matches every Ei.
C12_AggregationKeepsAll ==
  (FailedWithRecorded /\ cfg.allErrors) =>
    LET k == Len(Fns)
    IN /\ k >= 1
       /\ result.errs = FnErrs
       /\ Len(result.errs) = k
       /\ result.join <=> k > 1
       /\ \A i \in 1..k : ErrorsIs(result, Fns[i].err)

C12_Witness ==
  /\ FailedWithRecorded
  /\ cfg.allErrors
  /\ state = "Exhausted"
  /\ cfg.maxDuration > 0
  /\ Len(Fns) < maxAttempts
  /\ FnErrs = <<E1, E2>>
  /\ result.join

C14_OnlyOperationErrors ==
  (pc = "done" /\ state # "Success") =>
    /\ result # ErrNil
    /\ \A j \in 1..Len(result.errs) :
         /\ result.errs[j] # CtxErr
         /\ \E i \in 1..Len(Fns) : result.errs[j] \in Layers(Fns[i].err)
    /\ state \in {"Exhausted", "Cancelled", "ConditionRejected"} => result = ExpectedFailure
    /\ state = "Stopped" => result.errs[1] \in Layers(Fns[Len(Fns)].err)

C14_Witness ==
  /\ pc = "done"
  /\ state = "Cancelled"
  /\ cfg.clock = "real"
  /\ cfg.allErrors
  /\ Len(Fns) = 2
  /\ result.errs = FnErrs

\* C15: the attempt budget is checked before the predicate: when attempt
\* number max_attempts fails with a non-terminal error the run ends Exhausted
\* and the exhaustion hook is invoked exactly once, with that attempt and
\* error, as the last call of the run; the predicate is not consulted for
\* that attempt, even if it would reject the error.
C15_BudgetBeforePredicate ==
  \A i \in 1..Len(trace) :
    (trace[i].ev = "fn" /\ Transient(trace[i].err) /\ trace[i].attempt = maxAttempts) =>
      LET k == trace[i].attempt
      IN /\ pc = "done"
         /\ state = "Exhausted"
         /\ Len(Fns) = k
         /\ \A j \in 1..Len(ConditionCalls) : ConditionCalls[j].attempt < k
         /\ cfg.onExhausted => (Len(trace) = i + 1 /\ OnExhausteds = <<Event("onExhausted", k, trace[i].err, 0)>>)
         /\ ~cfg.onExhausted => Len(trace) = i

C15_Witness ==
  /\ state = "Exhausted"
  /\ cfg.condition = "notE2"
  /\ maxAttempts = 2
  /\ FnErrs = <<E1, E2>>
  /\ cfg.onExhausted
  /\ Len(OnExhausteds) = 1
  /\ Len(ConditionCalls) = 1

\* C16 as stated: an error that the predicate rejects ends the run as
\* ConditionRejected, without the exhaustion hook, on every attempt,
\* attempt = max_attempts included.
C16_PredicateBeforeBudget ==
  \A i \in 1..Len(trace) :
    (/\ trace[i].ev = "fn"
     /\ Transient(trace[i].err)
     /\ cfg.condition # "nil"
     /\ ~Accepts(cfg.condition, trace[i].err)) =>
      /\ pc = "done"
      /\ state = "ConditionRejected"
      /\ OnExhausteds = <<>>

\* the calls made since the operation last returned
LastFn == CHOOSE i \in 1..Len(trace) : trace[i].ev = "fn" /\ \A j \in (i + 1)..Len(trace) : trace[j].ev # "fn"
SinceLastFn == [j \in 1..(Len(trace) - LastFn) |-> trace[LastFn + j].ev]
IsPrefix(s, t) == Len(s) <= Len(t) /\ \A j \in 1..Len(s) : s[j] = t[j]

\* the calls of one attempt that goes on to the next, in order
RetryCalls ==
  (IF cfg.condition # "nil" THEN <<"condition">> ELSE <<>>) \o <<"backoff">> \o (IF cfg.onRetry THEN <<"onRetry">> ELSE <<>>) \o <<"sleep">>

\* C16 as amended: after a failed attempt the loop consults, in this order,
\* the terminal marker, the attempt budget, the predicate, the duration
\* budget and the delay strategy.  A terminal error ends the run before
\* anything else is called; on attempt = max_attempts the run ends Exhausted
\* without the predicate being consulted; on an earlier attempt an error the
\* predicate rejects ends the run as ConditionRejected without the exhaustion
\* hook, also when the deadline has passed; the backoff is consulted only
\* after the predicate accepted and the deadline check passed.
C16_OrderOfChecks ==
  Len(Fns) >= 1 =>
    LET e == trace[LastFn].err
        k == trace[LastFn].attempt
    IN /\ HasStop(e) => (SinceLastFn = <<>> /\ state = "Stopped")
       /\ (Transient(e) /\ k >= maxAttempts) =>
            /\ state = "Exhausted"
            /\ SinceLastFn = (IF cfg.onExhausted THEN <<"onExhausted">> ELSE <<>>)
       /\ (Transient(e) /\ k < maxAttempts /\ ~Accepted(e)) =>
            /\ state = "ConditionRejected"
            /\ SinceLastFn = <<"condition">>
            /\ OnExhausteds = <<>>
       /\ (Transient(e) /\ k < maxAttempts /\ Accepted(e)) =>
            /\ state \in {"Running", "Exhausted", "Cancelled"}
            /\ state \in {"Running", "Cancelled"} => IsPrefix(SinceLastFn, RetryCalls)
            /\ (state = "Exhausted" /\ cfg.onExhausted) =>
                 /\ SinceLastFn[Len(SinceLastFn)] = "onExhausted"
                 /\ IsPrefix(SubSeq(SinceLastFn, 1, Len(SinceLastFn) - 1), RetryCalls)
            /\ (state = "Exhausted" /\ now > deadline /\ cfg.clock = "fake") => \A j \in 1..Len(SinceLastFn) : SinceLastFn[j] # "backoff"

C16_Witness ==
  /\ state = "ConditionRejected"
  /\ cfg.maxDuration > 0
  /\ now > deadline
  /\ Len(Fns) = 2
  /\ maxAttempts = 3
  /\ cfg.onExhausted
  /\ SinceLastFn = <<"condition">>

\* C17: a configured maximum <= 0 (zero or negative) is replaced by 3: the
\* attempts are counted against 3, so an operation that always fails (with
\* errors the predicate accepts, no duration budget, no cancellation) is
\* invoked exactly 3 times, and in no run more than 3 times or not at all.
C17_Premise ==
  /\ pc = "done"
  /\ cfg.maxAttempts <= 0
  /\ cfg.maxDuration = 0
  /\ ~cancelled
  /\ \A i \in 1..Len(Fns) : Transient(Fns[i].err) /\ Accepted(Fns[i].err)

C17_NonPositiveMeansThree ==
  (cfg.maxAttempts <= 0 /\ pc # "start") =>
    /\ maxAttempts = 3
    /\ attempt \in 1..3
    /\ Len(Fns) <= 3
    /\ pc = "done" => Len(Fns) >= 1
    /\ C17_Premise => (Len(Fns) = 3 /\ state = "Exhausted" /\ \A i \in 1..3 : Fns[i].attempt = i)

C17_Witness ==
  /\ C17_Premise
  /\ cfg.maxAttempts = 0 - 1
  /\ Len(Fns) = 3
  /\ Len(Sleeps) = 2

\* the value an option list sets for a field: that of its last option of
\* that name, if any
HasOpt(opts, name) == \E i \in 1..Len(opts) : opts[i].opt = name
LastOpt(opts, name) == opts[CHOOSE i \in 1..Len(opts) : opts[i].opt = name /\ \A j \in (i + 1)..Len(opts) : opts[j].opt # name]

\* the configuration a call with options opts has on a Policy p
OwnMaxAttempts(p, opts) == IF HasOpt(opts, "WithMaxAttempts") THEN LastOpt(opts, "WithMaxAttempts").n ELSE p.maxAttempts
OwnMaxDuration(p, opts) == IF HasOpt(opts, "WithMaxDuration") THEN LastOpt(opts, "WithMaxDuration").n ELSE p.maxDuration
OwnBackoff(p, opts) == IF HasOpt(opts, "WithBackoff") THEN LastOpt(opts, "WithBackoff").b ELSE p.backoff
OwnClock(p, opts) == IF HasOpt(opts, "WithClock") THEN LastOpt(opts, "WithClock").c ELSE p.clock
OwnAttemptCap(p, opts) == IF OwnMaxAttempts(p, opts) <= 0 THEN 3 ELSE OwnMaxAttempts(p, opts)

\* C18: Policy.Do never modifies the Policy, whatever options the call has;
\* the options of a call apply to that call only: every call runs with the
\* Policy's fields overridden by its own options, starts at attempt 1 with
\* nothing recorded, and an operation that always fails is invoked as often
\* as the call's own attempt cap says, also in a call made after another
\* call on the same Policy.
C18_Call ==
  pc # "idle" =>
    /\ cfg.maxAttempts = OwnMaxAttempts(policy, callOpts)
    /\ cfg.maxDuration = OwnMaxDuration(policy, callOpts)
    /\ cfg.backoff = OwnBackoff(policy, callOpts)
    /\ cfg.clock = OwnClock(policy, callOpts)
    /\ pc # "start" => maxAttempts = OwnAttemptCap(policy, callOpts)
    /\ (pc = "call" /\ trace = <<>>) => (attempt = 1 /\ lastErr = Nil /\ errs = <<>>)
    /\ (/\ pc = "done"
        /\ cfg.maxDuration = 0
        /\ ~cancelled
        /\ \A i \in 1..Len(Fns) : Transient(Fns[i].err) /\ Accepted(Fns[i].err)) =>
         Len(Fns) = OwnAttemptCap(policy, callOpts)

C18_Step == policy' = policy /\ C18_Call'

C18_PolicyNeverModified == [][C18_Step]_vars

C18_Witness ==
  /\ self = 2
  /\ pc = "done"
  /\ parked.pc = "done"
  /\ parked.callOpts = <<WithMaxAttempts(1)>>
  /\ Len(parked.trace) = 1
  /\ parked.state = "Exhausted"
  /\ callOpts = <<>>
  /\ policy = New(<<WithMaxAttempts(2)>>)
  /\ ~cancelled
  /\ FnErrs = <<E1, E1>>

\* what an invocation with locals l has done, read from its own trace
FnsOf(l) == SelectSeq(l.trace, IsFn)
IsFailedFn(x) == x.ev = "fn" /\ x.err # Nil
FailedOf(l) == SelectSeq(l.trace, IsFailedFn)
FailedErrsOf(l) == [i \in 1..Len(FailedOf(l)) |-> FailedOf(l)[i].err]

\* the locals l of an invocation are those of that invocation running alone:
\* its configuration is the Policy's with its own options, its deadline and
\* attempt cap come from that configuration, its attempt counter counts its
\* own attempts, its recorded errors are those of its own operation, its
\* hooks are called as its own configuration says, and its result is made of
\* its own recorded errors
C19_Alone(l) ==
  l.pc \notin {"idle", "none"} =>
    /\ l.cfg = PolicyDoConfig(policy, l.callOpts)
    /\ l.pc # "start" =>
         /\ l.maxAttempts = OwnAttemptCap(policy, l.callOpts)
         /\ l.deadline = OwnMaxDuration(policy, l.callOpts)
         /\ l.attempt = IF l.pc = "call" THEN Len(FnsOf(l)) + 1 ELSE Len(FnsOf(l))
         /\ l.attempt <= l.maxAttempts
    /\ \A i \in 1..Len(FnsOf(l)) : FnsOf(l)[i].attempt = i
    /\ ~l.cfg.allErrors =>
         /\ l.errs = <<>>
         /\ l.lastErr = IF FailedOf(l) = <<>> THEN Nil ELSE FailedOf(l)[Len(FailedOf(l))].err
    /\ l.cfg.allErrors => (l.errs = FailedErrsOf(l) /\ l.lastErr = Nil)
    /\ Len(SelectSeq(l.trace, IsOnRetry)) = IF l.cfg.onRetry THEN Len(SelectSeq(l.trace, IsSleep)) + (IF l.pc = "sleep" THEN 1 ELSE 0) ELSE 0
    /\ Len(SelectSeq(l.trace, IsOnSuccess)) = IF l.cfg.onSuccess /\ l.pc = "done" /\ l.state = "Success" THEN 1 ELSE 0
    /\ Len(SelectSeq(l.trace, IsOnExhausted)) = IF l.cfg.onExhausted /\ l.pc = "done" /\ l.state = "Exhausted" THEN 1 ELSE 0
    /\ l.pc = "done" =>
         l.result = IF l.state = "Success" THEN ErrNil
                    ELSE IF l.cfg.allErrors /\ Len(FailedOf(l)) > 1 THEN [join |-> TRUE, errs |-> FailedErrsOf(l)]
                    ELSE [join |-> FALSE, errs |-> <<FailedOf(l)[Len(FailedOf(l))].err>>]

\* C19: two invocations of Do on one Policy are independent under every
\* interleaving: a step of one invocation leaves every local of the other
\* one as it was (its attempt counter, recorded errors, deadline, merged
\* configuration, trace and result), a context switch hands each invocation
\* back exactly the locals it had, and at every moment both invocations have
\* the locals, attempts, hook calls and result of a run alone.
C19_Step ==
  /\ self' = self => parked' = parked
  /\ self' # self => (parked' = Locals /\ Locals' = parked)
  /\ C19_Alone(Locals)'
  /\ C19_Alone(parked)'

C19_InvocationsIndependent == [][C19_Step]_vars

\* both invocations are in the middle of their runs, the first asleep after
\* its second attempt, the second one after its first attempt, with
\* different configurations and attempt caps
C19_Witness ==
  /\ self = 1
  /\ pc = "sleep"
  /\ attempt = 2
  /\ parked.pc = "delay"
  /\ parked.attempt = 1
  /\ parked.cfg # cfg
  /\ parked.maxAttempts # maxAttempts

\* the number of calls of the operation among the first i events of the run
FnsBefore(i) == Len(SelectSeq(SubSeq(trace, 1, i), IsFn))

\* C20: with a retry hook configured, every sleep is immediately preceded by
\* one call of the hook with the number of the attempt that just failed,
\* that attempt's error and exactly the delay passed to Sleep; every call of
\* the hook follows a failed attempt and is immediately followed by that
\* sleep; the hook sees attempts 1, 2, ... in order; a run that exhausts N
\* attempts calls it exactly N-1 times and never for attempt N.
C20_RetryHook ==
  cfg.onRetry =>
    /\ \A i \in 1..Len(trace) :
         trace[i].ev = "sleep" =>
           /\ i > 1
           /\ trace[i - 1] = Event("onRetry", trace[i].attempt, Fns[trace[i].attempt].err, trace[i].d)
           /\ trace[i].attempt = FnsBefore(i)
    /\ \A i \in 1..Len(trace) :
         trace[i].ev = "onRetry" =>
           /\ trace[i].attempt = FnsBefore(i)
           /\ trace[i].attempt >= 1
           /\ trace[i].err = Fns[trace[i].attempt].err
           /\ trace[i].err # Nil
           /\ IF i < Len(trace) THEN trace[i + 1].ev = "sleep" ELSE pc = "sleep" /\ trace[i].d = delay
    /\ \A k \in 1..Len(OnRetries) : OnRetries[k].attempt = k
    /\ Len(OnRetries) = Len(Sleeps) + (IF pc = "sleep" THEN 1 ELSE 0)
    /\ (pc = "done" /\ state = "Exhausted") =>
         /\ Len(OnRetries) = Len(Fns) - 1
         /\ \A k \in 1..Len(OnRetries) : OnRetries[k].attempt # Len(Fns)

\* a run that exhausted three attempts called the hook for attempts 1 and 2,
\* the second time with a delay the duration budget had cut short
C20_Witness ==
  /\ cfg.onRetry
  /\ pc = "done"
  /\ state = "Exhausted"
  /\ maxAttempts = 3
  /\ Len(Fns) = 3
  /\ Len(OnRetries) = 2
  /\ OnRetries[2].attempt = 2
  /\ OnRetries[2].d < BackoffCalls[2].d
  /\ Len(Sleeps) = 2
  /\ Sleeps[2].d = OnRetries[2].d

\* C21: a sleep occurs only between two consecutive attempts and once per
\* gap: every sleep comes after the attempt of its number and before the
\* next one, when Do returns from a run that was not cancelled the number of
\* sleeps is the number of calls of the operation minus 1, and no sleep
\* follows the final attempt.
C21_SleepsBetweenAttempts ==
  /\ \A i \in 1..Len(trace) :
       trace[i].ev = "sleep" =>
         /\ trace[i].attempt = FnsBefore(i)
         /\ trace[i].attempt >= 1
         /\ \A j \in 1..(i - 1) : trace[j].ev = "sleep" => trace[j].attempt < trace[i].attempt
  /\ (pc = "done" /\ state # "Cancelled") =>
       /\ Len(Sleeps) = Len(Fns) - 1
       /\ \A k \in 1..Len(Sleeps) : Sleeps[k].attempt = k
       /\ \A i \in 1..Len(trace) : trace[i].ev = "sleep" => \E j \in (i + 1)..Len(trace) : trace[j].ev = "fn"

\* the README's test: three attempts, two sleeps, the third attempt succeeds
C21_Witness ==
  /\ pc = "done"
  /\ state = "Success"
  /\ cfg.clock = "fake"
  /\ Len(Fns) = 3
  /\ Len(Sleeps) = 2
  /\ trace[Len(trace)].ev = "fn" \/ cfg.onSuccess

\* C28: Stop(nil) is nil, not a marker wrapping nil: a call of the operation
\* that returns Stop(nil) ends the run as a success, with the success hook
\* (if one is configured) called once with that attempt's number and no
\* error returned by Do; it is never a terminal failure.
C28_StopNilIsSuccess ==
  /\ Stop(Nil) = Nil
  /\ ~HasStop(Stop(Nil))
  /\ \A i \in 1..Len(trace) :
       (trace[i].ev = "fn" /\ trace[i].err = Stop(Nil)) =>
         /\ pc = "done"
         /\ state = "Success"
         /\ result = ErrNil
         /\ OnExhausteds = <<>>
         /\ IF cfg.onSuccess
            THEN i + 1 = Len(trace) /\ trace[i + 1] = Event("onSuccess", trace[i].attempt, Nil, 0)
            ELSE i = Len(trace)

\* the second attempt returned Stop(nil) and the success hook was called
C28_Witness ==
  /\ pc = "done"
  /\ cfg.onSuccess
  /\ Len(Fns) = 2
  /\ Fns[2].err = Stop(Nil)
  /\ state = "Success"
  /\ Len(OnSuccesses) = 1

C29_Safe ==
  /\ spc = "drain" => (timerC = 1 /\ timer = "fired")
  /\ spc = "stop" => ctxDone
  /\ sleepRet = "nil" <=> (spc = "done" /\ sleepRet # "ctxErr")
  /\ sleepRet = "nil" => (order # <<>> /\ \E i \in 1..Len(order) : order[i] = "fire")
  /\ sleepRet = "ctxErr" => (spc = "done" /\ ctxDone)
  /\ (spc = "done" /\ ~ctxDone) => sleepRet = "nil"
  /\ (spc = "done" /\ timer = "stopped") => sleepRet = "ctxErr"

C30_NonPositiveSucceeds ==
  (spc = "done" /\ sleepD <= 0) => sleepRet = "nil"

\* a strategy built from non-negative parameters
RECURSIVE NonNegativeParams(_)
NonNegativeParams(b) ==
  IF b.kind \in {"Constant", "Linear", "Exponential"} THEN ~IsNeg(b.d)
  ELSE IF b.kind = "WithCap" THEN ~IsNeg(b.max) /\ NonNegativeParams(b.inner)
  ELSE IF b.kind = "WithMin" THEN ~IsNeg(b.min) /\ NonNegativeParams(b.inner)
  ELSE b.factor >= 0 /\ NonNegativeParams(b.inner)

\* C22: for every strategy built from non-negative parameters and every
\* attempt in [-1, 10000], the delay is not negative.
C22_DelayNeverNegative ==
  (bpc = "done" /\ NonNegativeParams(strategy)) => ~IsNeg(out)

\* C23: for every base >= 0, Exponential(base).Delay(n) is the number
\* base * 2^(n-1) for 1 <= n <= 62, base for n <= 0, and the largest
\* duration for n > 62.
C23_ExponentialValue ==
  (bpc = "done" /\ strategy.kind = "Exponential" /\ ~IsNeg(strategy.d)) =>
    IF attemptArg <= 0 THEN out = strategy.d
    ELSE IF attemptArg > 62 THEN out = MaxInt64
    ELSE Extend(out, WideBytes) = Mul(Extend(strategy.d, WideBytes), ShiftLeft(FromNat(WideBytes, 1), attemptArg - 1))

\* C24: for every base >= 0, Exponential(base).Delay does not decrease from
\* one attempt >= 1 to the next, and is never negative and never smaller
\* than base.
C24_ExponentialMonotonic ==
  (bpc = "done" /\ strategy.kind = "Exponential" /\ ~IsNeg(strategy.d) /\ attemptArg >= 1) =>
    /\ ~IsNeg(out)
    /\ Le(strategy.d, out)
    /\ Le(out, DelayInt64(strategy, attemptArg + 1, <<>>, convs))

\* what the strategy inside the outermost wrapper returned in this call
InnerDelay == DelayInt64(strategy.inner, attemptArg, draw, convs)

\* C25: WithCap(max, s).Delay(n) is the smaller of s.Delay(n) and max, so
\* it is at most max; WithMin(min, s).Delay(n) is the larger of s.Delay(n)
\* and min, so it is at least min; for every inner strategy, bound and
\* attempt.
C25_CapAndMin ==
  /\ (bpc = "done" /\ strategy.kind = "WithCap") =>
       /\ Le(out, strategy.max)
       /\ Le(out, InnerDelay)
       /\ out \in {InnerDelay, strategy.max}
  /\ (bpc = "done" /\ strategy.kind = "WithMin") =>
       /\ Le(strategy.min, out)
       /\ Le(InnerDelay, out)
       /\ out \in {InnerDelay, strategy.min}

\* the cap of 500ms cuts the 100ms * 2^36 of attempt 37
C25_Witness ==
  /\ bpc = "done"
  /\ strategy = WithCap(Dur(500000000), Exponential(Dur(100000000)))
  /\ attemptArg = 37
  /\ out = Dur(500000000)
  /\ InnerDelay # out

\* C26: with a factor <= 0, WithJitter(f, s).Delay(n) is exactly s.Delay(n),
\* whatever the random source would have returned and on either build.
C26_NoJitterForNonPositiveFactor ==
  (bpc = "done" /\ strategy.kind = "WithJitter" /\ strategy.factor <= 0) =>
    /\ out = DelayInt64(strategy.inner, attemptArg, Tail(draw), convs)
    /\ \A u \in DrawValues : DelayInt64(strategy, attemptArg, <<u>> \o Tail(draw), convs) = out

\* the test's WithJitter(-0.5, Constant(100ms)) with the random source at 0
C26_Witness ==
  /\ bpc = "done"
  /\ strategy = WithJitter(0 - 2, Constant(Dur(100000000)))
  /\ draw = <<0>>
  /\ out = Dur(100000000)

\* out and d as numbers, in units of 2^-FactorShift
Scaled(x, k) == Mul(Extend(x, WideBytes), FromNat(WideBytes, k))

\* C27: for a factor 0 < f <= 1 and d >= 0, WithJitter(f, Constant(d)).Delay
\* lies in [d*(1-f), d*(1+f)] for every value of the random source, and is
\* never negative; for every positive factor, f > 1 included, the delay is
\* never negative.
C27_JitterWithinRange ==
  (/\ bpc = "done"
   /\ strategy.kind = "WithJitter"
   /\ strategy.factor > 0
   /\ strategy.inner.kind = "Constant"
   /\ ~IsNeg(strategy.inner.d)) =>
    /\ ~IsNeg(out)
    /\ strategy.factor <= 2^FactorShift =>
         /\ Le(Scaled(strategy.inner.d, 2^FactorShift - strategy.factor), Scaled(out, 2^FactorShift))
         /\ Le(Scaled(out, 2^FactorShift), Scaled(strategy.inner.d, 2^FactorShift + strategy.factor))
\* the effective attempt cap of the running call
AttemptCap == IF cfg.maxAttempts > 0 THEN cfg.maxAttempts ELSE 3

\* C31: in every reachable state of a run of Do the operation has been
\* invoked at most as often as the effective attempt cap says (max_attempts
\* if positive, otherwise 3), whatever the outcomes, the predicate, the
\* budget, the backoff, the clock and cancellation do; the attempt counter
\* starts at 1, the i-th invocation is attempt i, and the counter only ever
\* goes up by exactly 1, after an attempt that failed.
C31_Counted ==
  /\ Len(Fns) <= AttemptCap
  /\ \A i \in 1..Len(Fns) : Fns[i].attempt = i
  /\ pc # "start" =>
       /\ attempt \in 1..AttemptCap
       /\ Len(Fns) = IF pc = "call" THEN attempt - 1 ELSE attempt
       /\ \A i \in 1..(attempt - 1) : Fns[i].err # Nil

C31_Step ==
  /\ pc = "start" => attempt' \in {attempt, 1}
  /\ pc # "start" => attempt' \in {attempt, attempt + 1}
  /\ (pc # "start" /\ attempt' = attempt + 1) => (err # Nil /\ Fns[attempt].err = err /\ Len(Fns') = Len(Fns))

C31_AttemptsWithinCap == []C31_Counted /\ [][C31_Step]_vars

C31_Witness ==
  /\ pc = "done"
  /\ cfg.maxAttempts = 0
  /\ cfg.maxDuration > 0
  /\ cfg.clock = "real"
  /\ cancelled
  /\ attempt = 3
  /\ Len(Fns) = 3
  /\ state = "Success"
\* the states a run of Do ends in
Terminal == {"Success", "Exhausted", "Stopped", "ConditionRejected", "Cancelled"}

\* C32: every invocation of Do terminates, provided each call of the
\* operation, the predicate, the hooks and the clock returns: the loop
\* reaches exactly one of Success, Exhausted, Stopped, ConditionRejected and
\* Cancelled, stays Running until it returns and keeps the state it
\* returned in.
C32_OneOutcome ==
  /\ pc = "done" <=> state \in Terminal
  /\ pc # "done" <=> state = "Running"

C32_Final == pc = "done" => UNCHANGED <<state, result, trace, attempt>>

C32_DoTerminates == <>(pc = "done") /\ []C32_OneOutcome /\ [][C32_Final]_vars

C32_Witness ==
  /\ pc = "done"
  /\ state = "Cancelled"
  /\ cfg.maxAttempts = 0
  /\ cfg.clock = "real"
  /\ Len(Sleeps) = 2
\* C33: Do returns no error if and only if the last invocation of the
\* operation returned success: after a run whose last attempt failed it
\* returns an error, in either error mode and on every exit (attempt budget,
\* predicate, deadline, no time remaining, cancellation, terminal stop), and
\* after a successful attempt it returns nil.
C33_NilIffLastSucceeded ==
  pc = "done" =>
    /\ Len(Fns) >= 1
    /\ result = ErrNil <=> Fns[Len(Fns)].err = Nil
    /\ result = ErrNil <=> state = "Success"
    /\ result # ErrNil => \A j \in 1..Len(result.errs) : result.errs[j] # Nil

C33_Witness ==
  /\ pc = "done"
  /\ state = "Cancelled"
  /\ cfg.allErrors
  /\ cfg.maxDuration > 0
  /\ Len(Fns) = 2
  /\ result = [join |-> TRUE, errs |-> <<E1, E2>>]
\* the success and exhaustion hook calls of the run, in order
IsFinalHook(x) == x.ev \in {"onSuccess", "onExhausted"}
FinalHooks == SelectSeq(trace, IsFinalHook)

\* C34: in a single run of Do at most one of the success hook and the
\* exhaustion hook is invoked, and at most once; its call is the last thing
\* the run does: Do has returned, and no call of the operation, the retry
\* hook, the predicate, the backoff or the clock's sleep comes after it.
C34_FinalHookLast ==
  /\ Len(FinalHooks) <= 1
  /\ Len(FinalHooks) = 1 =>
       /\ pc = "done"
       /\ IsFinalHook(trace[Len(trace)])
       /\ \A i \in 1..(Len(trace) - 1) : ~IsFinalHook(trace[i])
       /\ Len(OnSuccesses) = 1 <=> state = "Success"
       /\ Len(OnExhausteds) = 1 <=> state = "Exhausted"

C34_Step == Len(FinalHooks) = 1 => trace' = trace

C34_OneFinalHook == []C34_FinalHookLast /\ [][C34_Step]_vars

C34_Witness ==
  /\ pc = "done"
  /\ cfg.onSuccess
  /\ cfg.onExhausted
  /\ cfg.onRetry
  /\ state = "Exhausted"
  /\ cfg.maxDuration > 0
  /\ Len(Fns) = 2
  /\ Len(Fns) < maxAttempts
  /\ Len(OnRetries) = 1
  /\ Len(OnExhausteds) = 1
\* C35: the loop itself never checks the cancellation signal before it
\* invokes the operation. When Do is called with a context that is already
\* cancelled, the operation is still invoked (attempt 1), and only the sleep
\* observes the cancellation: the run ends Cancelled only from a sleep that
\* returned ctx's error. With max_attempts >= 2 and a clock whose Sleep
\* reports a cancelled ctx, the run ends after exactly one attempt with that
\* attempt's error.
C35_LoopIgnoresCtx ==
  /\ cancelled
  /\ pc \notin {"start", "call"} => (Len(Fns) >= 1 /\ trace[1] = Fns[1] /\ Fns[1].attempt = 1)
  /\ state = "Cancelled" => (trace[Len(trace)].ev = "sleep" /\ trace[Len(trace)].err = CtxErr)
  /\ (pc = "done" /\ cfg.clock = "fake" /\ maxAttempts >= 2) =>
       /\ Len(Fns) = 1
       /\ result = Ret(IF HasStop(Fns[1].err) THEN StopUnwrap(Fns[1].err) ELSE Fns[1].err)
       /\ (Transient(Fns[1].err) /\ Accepted(Fns[1].err) /\ cfg.maxDuration = 0) => (state = "Cancelled" /\ Len(Sleeps) = 1)

C35_Witness ==
  /\ pc = "done"
  /\ cfg.clock = "fake"
  /\ cfg.maxAttempts = 3
  /\ cfg.allErrors
  /\ cfg.onRetry
  /\ state = "Cancelled"
  /\ Len(Fns) = 1
  /\ Len(OnRetries) = 1
  /\ result = Ret(E1)
\* index of the innermost *stopError of the chain, and what it wraps
LastStop(e) == CHOOSE i \in 1..Len(e) : e[i] = "stop" /\ \A j \in (i + 1)..Len(e) : e[j] # "stop"
Cause(e) == SubSeq(e, LastStop(e) + 1, Len(e))

\* C36: the error Do returns after a terminal stop never carries the
\* terminal marker itself, however the operation built its error (the
\* marker applied once, applied twice, or wrapped inside another error): the
\* value returned is the original cause that was marked.
C36_StopReturnsCause ==
  (pc = "done" /\ state = "Stopped") =>
    /\ result.join = FALSE
    /\ Len(result.errs) = 1
    /\ ~HasStop(result.errs[1])
    /\ result.errs[1] = Cause(Fns[Len(Fns)].err)
\* C37: on every exhaustion exit (attempt budget, deadline passed, no time
\* remaining) the exhaustion hook receives the number of attempts made and
\* the error of the attempt that just failed; in aggregation mode too it
\* receives that single most recent error, while Do returns the composite of
\* all of them. On no other exit is the hook called.
C37_ExhaustionHookArgs ==
  /\ (pc = "done" /\ state = "Exhausted" /\ cfg.onExhausted) =>
       /\ OnExhausteds = <<Event("onExhausted", Len(Fns), Fns[Len(Fns)].err, 0)>>
       /\ OnExhausteds[1].attempt = attempt
       /\ (cfg.allErrors /\ Len(Fns) >= 2) =>
            /\ result = [join |-> TRUE, errs |-> FnErrs]
            /\ result # Ret(OnExhausteds[1].err)
  /\ (state # "Exhausted" \/ ~cfg.onExhausted) => OnExhausteds = <<>>

C37_Witness ==
  /\ pc = "done"
  /\ state = "Exhausted"
  /\ cfg.onExhausted
  /\ cfg.allErrors
  /\ cfg.maxAttempts = 3
  /\ FnErrs = <<E1, E2>>
  /\ trace[Len(trace) - 1].ev = "backoff"
  /\ OnExhausteds = <<Event("onExhausted", 2, E2, 0)>>
\* what the operation and the clock returned to an invocation with locals l
IsInput(x) == x.ev \in {"fn", "sleep"}
InputsOf(l) == [i \in 1..Len(SelectSeq(l.trace, IsInput)) |-> <<SelectSeq(l.trace, IsInput)[i].ev, SelectSeq(l.trace, IsInput)[i].err>>]

\* C38: for policy-level options P and call-level options C, Do(ctx, fn,
\* P..., C...) and New(P...).Do(ctx, fn, C...) are equivalent: both run with
\* the same merged config, and when the operation and the clock return the
\* same to both, the two runs make the same calls of the operation, the
\* predicate, the backoff, the hooks and Sleep, with the same arguments, and
\* return the same result; with P empty both have the defaults (3 attempts,
\* exponential backoff from 100ms, no duration budget) unless C sets them.
C38_DoEquivalent ==
  /\ (pc # "idle" /\ parked.pc # "idle") => cfg = parked.cfg
  /\ (pc = "done" /\ parked.pc = "done" /\ InputsOf(Locals) = InputsOf(parked)) =>
       /\ trace = parked.trace
       /\ result = parked.result
       /\ state = parked.state
  /\ (pc # "idle" /\ policy = New(<<>>)) =>
       /\ ~HasOpt(callOpts, "WithMaxAttempts") => cfg.maxAttempts = 3
       /\ ~HasOpt(callOpts, "WithBackoff") => cfg.backoff = Exponential(1)
       /\ ~HasOpt(callOpts, "WithMaxDuration") => cfg.maxDuration = 0

C38_Witness ==
  /\ self = 2
  /\ pc = "done"
  /\ parked.pc = "done"
  /\ policy = New(<<WithMaxAttempts(2), WithMaxDuration(3), WithBackoff(Linear(2)), WithClock("fake")>>)
  /\ callOpts = <<WithMaxAttempts(3), WithAllErrors, OnRetry, OnSuccess, OnExhausted>>
  /\ trace = parked.trace
  /\ FnErrs = <<E1, E2, E1>>
  /\ Len(Sleeps) = 2
  /\ state = "Exhausted"

TypeOK == pc \in {"idle", "start", "call", "delay", "sleep", "done"}
====
